---- MODULE Spec2Model ----
(***************************************************************************)
(* proclikefs: /proc-like file system infrastructure that lets a file      *)
(* system be unregistered while superblocks of it are still mounted.       *)
(*                                                                         *)
(* Vocabulary (spec.md -> proclikefs.c):                                   *)
(*   Registration      struct proclikefs_file_system                       *)
(*   Registry          fs_list (guarded by fslist_lock)                    *)
(*   OperationTable    proclikefs_file_operations / _inode_operations      *)
(*   Instance          struct super_block                                  *)
(*   register          proclikefs_register_filesystem                      *)
(*   unregister        proclikefs_unregister_filesystem                    *)
(*   new_operation_table  proclikefs_new_file_operations / _inode_...      *)
(*   instance_acquire  proclikefs_read_super                               *)
(*   instance_release  proclikefs_put_super                                *)
(*   capability loan   the module use count (try_module_get / MOD_DEC)     *)
(*                                                                         *)
(* The specifications share the same memory operators:                     *)
(*   Spec       every exported function runs to completion as one action;  *)
(*   SpecConc   two execution contexts run the functions step by step, a   *)
(*              step being an atomic operation or a fslist_lock section;   *)
(*   SpecLock   as SpecConc, with a step ending at every spin_lock too;    *)
(*   SpecExt    one driver, and put_super calls without a read_super;      *)
(*   SpecReread one driver, proclikefs_reinitialize_supers, and            *)
(*              super_blocks of other file system types;                   *)
(*   SpecWalk   proclikefs_kill_super on dentry trees of every shape;      *)
(*   SpecFiles  one driver, and files opened on the super_blocks;          *)
(*   SpecOrder  two contexts, a step for every lock taken, lock_super      *)
(*              included.                                                  *)
(* SpecPoll is about polldevice.cc: the notifier shared by the PollDevice  *)
(* objects.                                                                *)
(***************************************************************************)
EXTENDS Integers, Sequences, FiniteSets, TLC

VARIABLES
    kver,       \* the LINUX_VERSION_CODE range the module was built for
    loaded,     \* the proclikefs module is loaded (init_module ran, cleanup_module did not)
    fs_list,    \* static LIST_HEAD(fs_list): sequence of Registration ids, head first
    pfs,        \* heap of struct proclikefs_file_system
    tab,        \* heap of proclikefs_file_operations / proclikefs_inode_operations
    sb,         \* the kernel's super_blocks
    modcount,   \* use count of THIS_MODULE
    faults,     \* undefined behaviour that has happened (accesses to freed memory)
    handle,     \* per driver: the pointer its last successful register call returned
    dstate,     \* per driver: "none", "registered" or "unregistered"
    pc,         \* per execution context: position inside the call it is running
    arg,        \* per execution context: the super_block or table the call works on
    last,       \* the call that completed last: its name, arguments and result
    poll        \* polldevice.cc: the PollDevice objects and the file's static data

vars == <<kver, loaded, fs_list, pfs, tab, sb, modcount, faults, handle, dstate, pc, arg, last, poll>>

(***************************************************************************)
(* Bounds of the model.                                                    *)
(***************************************************************************)
MaxPfs == 2     \* Registrations ever allocated
MaxTab == 2     \* OperationTables ever allocated
MaxSb == 2      \* super_blocks ever mounted
MaxMod == 4     \* cap on the module use count
MaxObj == 6      \* PollDevice objects that exist at a time
MaxCycles == 3   \* times the notifier is registered in one behaviour
MaxDebt == 1    \* cap on how far below zero repeated unregisters drive the use count

NULL == 0
NoFile == -1    \* f_op of a super_block whose s_files list is empty
StaticFop == -2 \* f_op of a file opened with a file_operations of the driver's own
PfsIds == 1..MaxPfs
TabIds == 1..MaxTab
SbIds == 1..MaxSb

Names == {"a", "b"}
\* The (fs_flags, get_sb) pairs drivers register with.
RegArgs == {[fs_flags |-> 0, get_sb |-> "get_sb1"], [fs_flags |-> 1, get_sb |-> "get_sb2"]}
Threads == {"t1", "t2"}

\* Builds that differ in the code: 2.4.20 <= v < 2.6.0, 2.6.0 <= v < 2.6.16, v >= 2.6.16.
KVers == {"2.4", "2.6.0", "2.6.16"}

\* Representative dispatch slots of struct file_operations and struct inode_operations.
FileSlots == {"read", "open"}
InodeSlots == {"lookup", "follow_link"}

SlotsOf(kind) == IF kind = "file" THEN FileSlots ELSE InodeSlots

(***************************************************************************)
(* Resource trees (dentries).  A shape gives every non-root node's parent; *)
(* node 1 is sb->s_root.                                                   *)
(***************************************************************************)
\* Every tree of up to five nodes, and a balanced, a wide and a deep tree of
\* seven: Tree[shape][n] is the parent of node n (0 for the root), children
\* are numbered after their parent.
Tree ==
    ("t0" :> <<0>>) @@ ("t01" :> <<0, 1>>) @@ ("fan" :> <<0, 1, 1>>) @@
    ("chain" :> <<0, 1, 2>>) @@ ("t0111" :> <<0, 1, 1, 1>>) @@ ("t0112" :> <<0, 1, 1, 2>>) @@
    ("t0113" :> <<0, 1, 1, 3>>) @@ ("t0121" :> <<0, 1, 2, 1>>) @@ ("t0122" :> <<0, 1, 2, 2>>) @@
    ("t0123" :> <<0, 1, 2, 3>>) @@ ("t01111" :> <<0, 1, 1, 1, 1>>) @@ ("t01112" :> <<0, 1, 1, 1, 2>>) @@
    ("t01113" :> <<0, 1, 1, 1, 3>>) @@ ("t01114" :> <<0, 1, 1, 1, 4>>) @@ ("t01121" :> <<0, 1, 1, 2, 1>>) @@
    ("t01122" :> <<0, 1, 1, 2, 2>>) @@ ("t01123" :> <<0, 1, 1, 2, 3>>) @@ ("t01124" :> <<0, 1, 1, 2, 4>>) @@
    ("t01131" :> <<0, 1, 1, 3, 1>>) @@ ("t01132" :> <<0, 1, 1, 3, 2>>) @@ ("t01133" :> <<0, 1, 1, 3, 3>>) @@
    ("t01134" :> <<0, 1, 1, 3, 4>>) @@ ("t01211" :> <<0, 1, 2, 1, 1>>) @@ ("t01212" :> <<0, 1, 2, 1, 2>>) @@
    ("t01213" :> <<0, 1, 2, 1, 3>>) @@ ("t01214" :> <<0, 1, 2, 1, 4>>) @@ ("t01221" :> <<0, 1, 2, 2, 1>>) @@
    ("t01222" :> <<0, 1, 2, 2, 2>>) @@ ("t01223" :> <<0, 1, 2, 2, 3>>) @@ ("t01224" :> <<0, 1, 2, 2, 4>>) @@
    ("t01231" :> <<0, 1, 2, 3, 1>>) @@ ("t01232" :> <<0, 1, 2, 3, 2>>) @@ ("t01233" :> <<0, 1, 2, 3, 3>>) @@
    ("t01234" :> <<0, 1, 2, 3, 4>>) @@ ("balanced" :> <<0, 1, 1, 2, 2, 3, 3>>) @@ ("wide" :> <<0, 1, 1, 1, 1, 1, 1>>) @@
    ("deep" :> <<0, 1, 2, 3, 4, 5, 6>>)

Shapes == DOMAIN Tree

\* The tree of a super_block, by the order in which it is mounted.
ShapeOf(s) == IF s = 1 THEN "chain" ELSE "fan"

Nodes(shape) == 1..Len(Tree[shape])

Parent(shape, n) == Tree[shape][n]

RECURSIVE SetToSeq(_)
SetToSeq(S) ==
    IF S = {} THEN <<>>
    ELSE LET m == CHOOSE x \in S : \A y \in S : x <= y
         IN <<m>> \o SetToSeq(S \ {m})

\* active->d_subdirs, in list order
d_subdirs(shape, n) == SetToSeq({c \in Nodes(shape) \ {1} : Parent(shape, c) = n})

(***************************************************************************)
(* Heap records.                                                           *)
(***************************************************************************)
NoPfs ==
    [st |-> "unalloc", name |-> "", live |-> 0, nsuper |-> 0, fs_flags |-> 0,
     mount |-> "", pfs_pfo |-> <<>>, pfs_pio |-> <<>>]

FreedPfs == [NoPfs EXCEPT !.st = "freed"]

NoTab == [st |-> "unalloc", kind |-> "", owner |-> NULL, slots |-> <<>>]

FreedTab == [NoTab EXCEPT !.st = "freed"]

NoSb ==
    [st |-> "none", s_type |-> NULL, s_op |-> "", shape |-> "", d_op |-> <<>>,
     dropped |-> {}, d_fsdata |-> <<>>, i_op |-> "", f_op |-> NoFile, visits |-> <<>>]

\* The memory the functions of proclikefs.c read and write.
World ==
    [fs_list |-> fs_list, pfs |-> pfs, tab |-> tab, sb |-> sb,
     modcount |-> modcount, faults |-> faults]

Install(w) ==
    /\ fs_list' = w.fs_list
    /\ pfs' = w.pfs
    /\ tab' = w.tab
    /\ sb' = w.sb
    /\ modcount' = w.modcount
    /\ faults' = w.faults

\* kmalloc: an id names one allocation, so a freed object stays recognisable.
FreshPfs(w) == CHOOSE p \in PfsIds : w.pfs[p].st = "unalloc" /\ \A q \in PfsIds : q < p => w.pfs[q].st # "unalloc"
FreshTab(w) == CHOOSE t \in TabIds : w.tab[t].st = "unalloc" /\ \A q \in TabIds : q < t => w.tab[q].st # "unalloc"
HasFreshPfs(w) == \E p \in PfsIds : w.pfs[p].st = "unalloc"
HasFreshTab(w) == \E t \in TabIds : w.tab[t].st = "unalloc"

SeqSet(s) == {s[i] : i \in 1..Len(s)}
SeqWithout(s, x) == SelectSeq(s, LAMBDA y : y # x)

GoneSb == [NoSb EXCEPT !.st = "gone"]

\* ptr: the pointer the call returned (register, new_operations) or the
\* Registration it worked on (read_super, put_super).
NoCall == [op |-> "none", name |-> "", ptr |-> NULL, calls |-> <<>>]

(***************************************************************************)
(* proclikefs_register_filesystem                                          *)
(***************************************************************************)

\* try_module_get(THIS_MODULE) / MOD_INC_USE_COUNT.  try_module_get fails only
\* while the module is being unloaded, which no call modelled here overlaps.
module_get(w) == [w EXCEPT !.modcount = @ + 1]

\* MOD_DEC_USE_COUNT
module_put(w) == [w EXCEPT !.modcount = @ - 1]

\* The lookup loop: newfs is assigned at every entry visited, the loop returns
\* on a live entry of that name and breaks on a non-live one.
RECURSIVE lookup_from(_, _, _, _)
lookup_from(w, name, i, newfs) ==
    IF i > Len(w.fs_list) THEN [busy |-> FALSE, newfs |-> newfs]
    ELSE LET cur == w.fs_list[i]
         IN IF w.pfs[cur].name = name
            THEN IF w.pfs[cur].live > 0
                 THEN [busy |-> TRUE, newfs |-> cur]
                 ELSE [busy |-> FALSE, newfs |-> cur]
            ELSE lookup_from(w, name, i + 1, cur)

\* A lookup that never finds an entry, so that register always allocates.
lookup_finds_nothing(w, name) == [busy |-> FALSE, newfs |-> NULL]

lookup(w, name) == lookup_from(w, name, 1, NULL)

\* The branch "if (!newfs)": a new Registration, linked at the head of fs_list.
register_alloc(w, name) ==
    LET id == FreshPfs(w)
    IN [w EXCEPT !.pfs[id] = [NoPfs EXCEPT !.st = "alloc", !.name = name, !.nsuper = 0,
                                           !.pfs_pfo = <<>>, !.pfs_pio = <<>>],
                 !.fs_list = <<id>> \o @]

\* An install that also restarts the count of Instances.
register_install_resets_nsuper(w, newfs, fs_flags, get_sb) ==
    [w EXCEPT !.pfs[newfs].fs_flags = fs_flags,
              !.pfs[newfs].mount = get_sb,
              !.pfs[newfs].live = 1,
              !.pfs[newfs].nsuper = 0]

\* What a successful call installs in newfs, new or reused.
register_install(w, newfs, fs_flags, get_sb) ==
    [w EXCEPT !.pfs[newfs].fs_flags = fs_flags,
              !.pfs[newfs].mount = get_sb,
              !.pfs[newfs].live = 1]

\* The locked part without the MOD_DEC_USE_COUNT of the failing returns.
register_locked_keeps_module(w, name, fs_flags, get_sb, oom) ==
    LET lk == lookup(w, name)
    IN IF lk.busy THEN [w |-> w, ret |-> NULL]
       ELSE IF lk.newfs = NULL
       THEN IF oom THEN [w |-> w, ret |-> NULL]
            ELSE LET w1 == register_alloc(w, name)
                 IN [w |-> register_install(w1, w1.fs_list[1], fs_flags, get_sb),
                     ret |-> w1.fs_list[1]]
       ELSE [w |-> register_install(w, lk.newfs, fs_flags, get_sb), ret |-> lk.newfs]

\* The part of the function that runs under fslist_lock, with the
\* MOD_DEC_USE_COUNT of its failing returns.
register_locked(w, name, fs_flags, get_sb, oom) ==
    LET lk == lookup(w, name)
    IN IF lk.busy THEN [w |-> module_put(w), ret |-> NULL]
       ELSE IF lk.newfs = NULL
       THEN IF oom THEN [w |-> module_put(w), ret |-> NULL]
            ELSE LET w1 == register_alloc(w, name)
                 IN [w |-> register_install(w1, w1.fs_list[1], fs_flags, get_sb),
                     ret |-> w1.fs_list[1]]
       ELSE [w |-> register_install(w, lk.newfs, fs_flags, get_sb), ret |-> lk.newfs]

register_filesystem(w, name, fs_flags, get_sb, oom) ==
    register_locked(module_get(w), name, fs_flags, get_sb, oom)

\* The call would reach kmalloc for a Registration.
register_allocates(w, name) ==
    LET lk == lookup(w, name) IN ~lk.busy /\ lk.newfs = NULL

(***************************************************************************)
(* proclikefs_new_file_operations / proclikefs_new_inode_operations        *)
(***************************************************************************)

\* A link step that puts the new table at the tail of the list.
ops_link_appends(w, p, kind) ==
    LET t == FreshTab(w)
    IN [w EXCEPT !.tab[t] = [st |-> "alloc", kind |-> kind, owner |-> p,
                             slots |-> [sl \in SlotsOf(kind) |-> "garbage"]],
                 !.pfs[p].pfs_pfo = IF kind = "file" THEN @ \o <<t>> ELSE @,
                 !.pfs[p].pfs_pio = IF kind = "inode" THEN @ \o <<t>> ELSE @]

\* kmalloc and the fslist_lock section: the table, its slots still whatever
\* kmalloc returned, becomes the head of the Registration's list.
ops_link(w, p, kind) ==
    LET t == FreshTab(w)
    IN [w EXCEPT !.tab[t] = [st |-> "alloc", kind |-> kind, owner |-> p,
                             slots |-> [sl \in SlotsOf(kind) |-> "garbage"]],
                 !.pfs[p].pfs_pfo = IF kind = "file" THEN <<t>> \o @ ELSE @,
                 !.pfs[p].pfs_pio = IF kind = "inode" THEN <<t>> \o @ ELSE @]

\* memset(&pfo->pfo_op, 0, ...), after the lock has been released
ops_memset(w, t) ==
    IF w.tab[t].st = "freed"
    THEN [w EXCEPT !.faults = @ \cup {"memset_of_freed"}]
    ELSE [w EXCEPT !.tab[t].slots = [sl \in DOMAIN w.tab[t].slots |-> "null"]]

new_operations(w, p, kind, oom) ==
    IF oom THEN [w |-> w, ret |-> NULL]
    ELSE LET w1 == ops_link(w, p, kind)
             t == FreshTab(w)
         IN [w |-> ops_memset(w1, t), ret |-> t]

(***************************************************************************)
(* proclikefs_kill_super                                                   *)
(***************************************************************************)

\* An inner loop that forgets the list when it pushes a child.
RECURSIVE push_children_loses_list(_, _, _, _)
push_children_loses_list(s, kids, i, dentry_tree) ==
    IF i > Len(kids) THEN [s |-> s, dentry_tree |-> dentry_tree]
    ELSE LET child == kids[i]
         IN push_children_loses_list([s EXCEPT !.dropped = @ \cup {child},
                                               !.d_fsdata[child] = NULL],
                                     kids, i + 1, child)

\* The inner loop: every child of active is dropped and pushed on the list
\* threaded through d_fsdata.
RECURSIVE push_children(_, _, _, _)
push_children(s, kids, i, dentry_tree) ==
    IF i > Len(kids) THEN [s |-> s, dentry_tree |-> dentry_tree]
    ELSE LET child == kids[i]
         IN push_children([s EXCEPT !.dropped = @ \cup {child},
                                    !.d_fsdata[child] = dentry_tree],
                          kids, i + 1, child)

\* The outer loop "while (dentry_tree)".  visits[nd] counts how often the
\* loop has made nd its active dentry since kill_super was entered.
RECURSIVE walk(_, _)
walk(s, dentry_tree) ==
    IF dentry_tree = NULL THEN s
    ELSE LET active == dentry_tree
             s1 == [s EXCEPT !.d_op[active] = "null", !.visits[active] = @ + 1]
             r == push_children(s1, d_subdirs(s.shape, active), 1, s1.d_fsdata[active])
         IN walk(r.s, r.dentry_tree)

\* A kill_super that leaves the root inode its operations.
kill_super_keeps_root_i_op(s, dummy) ==
    LET s1 == [s EXCEPT !.f_op = IF @ = NoFile THEN @ ELSE dummy,
                        !.s_op = "proclikefs_null_super_operations",
                        !.d_fsdata[1] = NULL,
                        !.visits = [nd \in DOMAIN @ |-> 0]]
    IN walk(s1, 1)

\* s is the super_block record, dummy the file operations every open file gets.
kill_super(s, dummy) ==
    LET s1 == [s EXCEPT !.f_op = IF @ = NoFile THEN @ ELSE dummy,
                        !.s_op = "proclikefs_null_super_operations",
                        !.d_fsdata[1] = NULL,
                        !.visits = [nd \in DOMAIN @ |-> 0]]
        s2 == walk(s1, 1)
    IN [s2 EXCEPT !.i_op = "proclikefs_null_root_inode_operations"]

(***************************************************************************)
(* proclikefs_unregister_filesystem                                        *)
(***************************************************************************)

\* The value the function stores in a slot.
poison(kind, slot, kv) ==
    IF kind = "inode" /\ slot = "follow_link"
    THEN IF kv = "2.6.16" THEN "null" ELSE "bad_follow_link"
    ELSE "return_EIO"

\* The two loops over pfs->pfs_pfo and pfs->pfs_pio.
poison_tables(w, p, kv) ==
    LET owned == SeqSet(w.pfs[p].pfs_pfo) \cup SeqSet(w.pfs[p].pfs_pio)
    IN [w EXCEPT !.tab = [t \in TabIds |->
            IF t \in owned
            THEN [w.tab[t] EXCEPT !.slots =
                    [sl \in DOMAIN w.tab[t].slots |-> poison(w.tab[t].kind, sl, kv)]]
            ELSE w.tab[t]]]

\* The super_blocks on pfs->fs.fs_supers: the kernel links a super_block when
\* it is set up and unlinks it after put_super has returned.
fs_supers(w, p) ==
    {s \in SbIds : w.sb[s].s_type = p /\ w.sb[s].st \in {"mounting", "active", "releasing"}}

\* The global super_blocks list: every super_block the kernel has set up and
\* not yet destroyed.
super_blocks(w) ==
    {s \in SbIds : w.sb[s].st \in {"mounting", "active", "releasing", "foreign"}}

\* A walk that calls reread_super for every super_block of the kernel.
reinitialize_supers_any_type(w, p, kv) == SetToSeq(super_blocks(w))

\* proclikefs_reinitialize_supers: the super_blocks reread_super is called
\* for, in call order.  From 2.4.10 the walk is over pfs->fs.fs_supers,
\* before that over super_blocks; both test sb->s_type == &pfs->fs.
reinitialize_supers(w, p, kv) ==
    LET list == IF kv = "2.4" THEN SetToSeq(super_blocks(w)) ELSE SetToSeq(fs_supers(w, p))
    IN SelectSeq(list, LAMBDA s : w.sb[s].s_type = p)

\* &pfs->pfs_pfo->pfo_op: the head of the file-operations list (pfo_op is the
\* first member, so an empty list gives a null pointer).
dummy_fop(w, p) == IF w.pfs[p].pfs_pfo = <<>> THEN NULL ELSE w.pfs[p].pfs_pfo[1]

kill_supers(w, p) ==
    [w EXCEPT !.sb = [s \in SbIds |->
        IF s \in fs_supers(w, p) THEN kill_super(w.sb[s], dummy_fop(w, p)) ELSE w.sb[s]]]

\* A retirement that also forgets the mounted super_blocks.
unregister_retire_clears_nsuper(w, p, kv) ==
    [w EXCEPT !.pfs[p].live = 0,
              !.pfs[p].nsuper = 0,
              !.pfs[p].mount = IF kv = "2.4" THEN "proclikefs_null_read_super" ELSE @]

\* pfs->live = 0 and, before 2.6.0, the read_super that fails every mount.
unregister_retire(w, p, kv) ==
    [w EXCEPT !.pfs[p].live = 0,
              !.pfs[p].mount = IF kv = "2.4" THEN "proclikefs_null_read_super" ELSE @]

unregister_filesystem(w, p, kv) ==
    module_put(unregister_retire(kill_supers(poison_tables(w, p, kv), p), p, kv))

(***************************************************************************)
(* proclikefs_read_super / proclikefs_put_super                            *)
(***************************************************************************)

\* atomic_inc(&pfs->nsuper) and the module reference
read_super(w, s) ==
    LET p == w.sb[s].s_type
    IN IF w.pfs[p].st = "freed"
       THEN module_get([w EXCEPT !.faults = @ \cup {"nsuper_of_freed"}])
       ELSE module_get([w EXCEPT !.pfs[p].nsuper = @ + 1])

\* atomic_dec(&pfs->nsuper)
put_super_dec(w, s) ==
    LET p == w.sb[s].s_type
    IN IF w.pfs[p].st = "freed"
       THEN [w EXCEPT !.faults = @ \cup {"nsuper_of_freed"}]
       ELSE [w EXCEPT !.pfs[p].nsuper = @ - 1]

\* A test that forgets the live flag.
put_super_test_ignores_live(live, nsuper) == nsuper = 0

\* The test that guards reclamation.
put_super_test(live, nsuper) == live = 0 /\ nsuper = 0

\* list_del, unregister_filesystem and the kfree calls
reclaim(w, p) ==
    LET owned == SeqSet(w.pfs[p].pfs_pfo) \cup SeqSet(w.pfs[p].pfs_pio)
    IN [w EXCEPT !.fs_list = SeqWithout(@, p),
                 !.tab = [t \in TabIds |-> IF t \in owned THEN FreedTab ELSE w.tab[t]],
                 !.pfs[p] = FreedPfs]

\* MOD_DEC_USE_COUNT and the fslist_lock section.  When the Registration has
\* already been freed the test reads freed memory: either outcome is possible
\* (taken tells which), and a taken branch frees everything a second time.
put_super_locked(w, s, taken) ==
    LET p == w.sb[s].s_type
        w1 == module_put(w)
    IN IF w1.pfs[p].st = "freed"
       THEN [w1 EXCEPT !.faults = @ \cup (IF taken THEN {"read_of_freed", "double_free"}
                                                  ELSE {"read_of_freed"})]
       ELSE IF put_super_test(w1.pfs[p].live, w1.pfs[p].nsuper)
       THEN reclaim(w1, p)
       ELSE w1

put_super(w, s, taken) == put_super_locked(put_super_dec(w, s), s, taken)

(***************************************************************************)
(* init_module                                                             *)
(***************************************************************************)

\* The members init_module sets in the two static operation tables; every
\* other member stays null.
init_module ==
    [proclikefs_null_super_operations |->
         [read_inode |-> "proclikefs_read_inode", put_super |-> "proclikefs_put_super"],
     proclikefs_null_root_inode_operations |->
         [lookup |-> "proclikefs_null_root_lookup"]]

(***************************************************************************)
(* cleanup_module                                                          *)
(***************************************************************************)

\* kfree of every Registration on fs_list; the tables are not visited.
cleanup_module(w) ==
    [w EXCEPT !.pfs = [p \in PfsIds |-> IF p \in SeqSet(w.fs_list) THEN FreedPfs ELSE w.pfs[p]]]

(***************************************************************************)
(* polldevice.cc: the static data shared by all PollDevice objects.        *)
(***************************************************************************)
ObjIds == 1..MaxObj

\* objects: the PollDevice objects that exist; count: poll_device_count;
\* chain: how many times device_notifier is linked on the kernel's
\* netdevice notifier chain; nreg / nunreg: the calls made so far to
\* register_netdevice_notifier / unregister_netdevice_notifier.
NoPoll == [objects |-> {}, count |-> 0, chain |-> 0, nreg |-> 0, nunreg |-> 0]

\* An initialize that registers the notifier for every object.
polldev_static_initialize_every_time(q) ==
    [q EXCEPT !.count = @ + 1, !.chain = @ + 1, !.nreg = @ + 1]

polldev_static_initialize(q) ==
    LET c == q.count + 1
    IN IF c = 1
       THEN [q EXCEPT !.count = c, !.chain = @ + 1, !.nreg = @ + 1]
       ELSE [q EXCEPT !.count = c]

\* unregister_netdevice_notifier unlinks the block if it is on the chain.
polldev_static_cleanup(q) ==
    LET c == q.count - 1
    IN IF c <= 0
       THEN [q EXCEPT !.count = c, !.chain = IF @ > 0 THEN @ - 1 ELSE @, !.nunreg = @ + 1]
       ELSE [q EXCEPT !.count = c]

(***************************************************************************)
(* Initial state: the module has just been loaded (init_module).           *)
(***************************************************************************)
Init ==
    /\ kver \in KVers
    /\ loaded = TRUE
    /\ fs_list = <<>>
    /\ pfs = [p \in PfsIds |-> NoPfs]
    /\ tab = [t \in TabIds |-> NoTab]
    /\ sb = [s \in SbIds |-> NoSb]
    /\ modcount = 0
    /\ faults = {}
    /\ handle = [n \in Names |-> NULL]
    /\ dstate = [n \in Names |-> "none"]
    /\ pc = [t \in Threads |-> "idle"]
    /\ arg = [t \in Threads |-> NULL]
    /\ last = NoCall
    /\ poll = NoPoll

\* A driver keeps the pointer register returned and notes what it did last.
DriverAfterRegister(n, ret) ==
    /\ handle' = IF ret = NULL THEN handle ELSE [handle EXCEPT ![n] = ret]
    /\ dstate' = IF ret = NULL THEN dstate ELSE [dstate EXCEPT ![n] = "registered"]

\* The code tells names apart by strcmp alone, so which driver registers first
\* does not matter: it is driver "a".
FirstCaller(n) == n = "a" \/ dstate["a"] # "none"

\* The handle driver n may pass to the module: one register returned to it
\* and that has not been freed since.
HasHandle(n) == handle[n] # NULL /\ pfs[handle[n]].st = "alloc"

\* The super_block the kernel sets up for a mount of Registration p.
NewSb(p, shape) ==
    [st |-> "mounting", s_type |-> p, s_op |-> "driver", shape |-> shape,
     d_op |-> [nd \in Nodes(shape) |-> "driver"], dropped |-> {},
     d_fsdata |-> [nd \in Nodes(shape) |-> NULL], i_op |-> "driver", f_op |-> NoFile,
     visits |-> [nd \in Nodes(shape) |-> 0]]

NoSbYet(s) == sb[s].st = "none"

NextSb == CHOOSE s \in SbIds : NoSbYet(s) /\ \A q \in SbIds : q < s => ~NoSbYet(q)

(***************************************************************************)
(* Spec: every call runs to completion as one action.                      *)
(***************************************************************************)
Register(n, fl, c, oom) ==
    /\ loaded
    /\ FirstCaller(n)
    /\ modcount < MaxMod
    /\ oom => register_allocates(World, n)
    /\ register_allocates(World, n) => oom \/ HasFreshPfs(World)
    /\ LET r == register_filesystem(World, n, fl, c, oom)
       IN /\ Install(r.w)
          /\ DriverAfterRegister(n, r.ret)
          /\ last' = [NoCall EXCEPT !.op = "register", !.name = n, !.ptr = r.ret]
    /\ UNCHANGED <<poll, kver, loaded, pc, arg>>

Unregister(n) ==
    /\ loaded
    /\ HasHandle(n)
    /\ dstate[n] = "registered" \/ modcount > -MaxDebt
    /\ Install(unregister_filesystem(World, handle[n], kver))
    /\ dstate' = [dstate EXCEPT ![n] = "unregistered"]
    /\ last' = [NoCall EXCEPT !.op = "unregister", !.name = n]
    /\ UNCHANGED <<poll, kver, loaded, handle, pc, arg>>

NewOperations(n, kind, oom) ==
    /\ loaded
    /\ HasHandle(n)
    /\ oom \/ HasFreshTab(World)
    /\ LET r == new_operations(World, handle[n], kind, oom)
       IN /\ Install(r.w)
          /\ last' = [NoCall EXCEPT !.op = "new_operations", !.name = n, !.ptr = r.ret]
    /\ UNCHANGED <<poll, kver, loaded, handle, dstate, pc, arg>>

\* The kernel mounts Registration p; the driver's constructor calls
\* proclikefs_read_super on the new super_block.
Mount(p) ==
    /\ loaded
    /\ modcount < MaxMod
    /\ \E s \in SbIds : NoSbYet(s)
    /\ pfs[p].st = "alloc" /\ pfs[p].live = 1
    /\ LET s == NextSb
           w0 == [World EXCEPT !.sb[s] = [NewSb(p, ShapeOf(s)) EXCEPT !.st = "active"]]
       IN /\ Install(read_super(w0, s))
          /\ last' = [NoCall EXCEPT !.op = "read_super", !.ptr = p]
    /\ UNCHANGED <<poll, kver, loaded, handle, dstate, pc, arg>>

\* The kernel shuts the super_block down: put_super, then the super_block
\* leaves fs_supers.
Umount(s, taken) ==
    /\ loaded
    /\ sb[s].st = "active"
    /\ taken => pfs[sb[s].s_type].st = "freed"
    /\ LET w1 == put_super(World, s, taken)
       IN Install([w1 EXCEPT !.sb[s] = GoneSb])
    /\ last' = [NoCall EXCEPT !.op = "put_super", !.ptr = sb[s].s_type]
    /\ UNCHANGED <<poll, kver, loaded, handle, dstate, pc, arg>>

\* rmmod: the kernel runs cleanup_module only when the use count is zero.
CleanupModule ==
    /\ loaded
    /\ modcount = 0
    /\ Install(cleanup_module(World))
    /\ loaded' = FALSE
    /\ last' = [NoCall EXCEPT !.op = "cleanup_module"]
    /\ UNCHANGED <<poll, kver, handle, dstate, pc, arg>>

Next ==
    \/ \E n \in Names, a \in RegArgs, oom \in BOOLEAN : Register(n, a.fs_flags, a.get_sb, oom)
    \/ \E n \in Names : Unregister(n)
    \/ \E n \in Names, kind \in {"file", "inode"}, oom \in BOOLEAN : NewOperations(n, kind, oom)
    \/ \E p \in PfsIds : Mount(p)
    \/ \E s \in SbIds, taken \in BOOLEAN : Umount(s, taken)
    \/ CleanupModule

Spec == Init /\ [][Next]_vars

(***************************************************************************)
(* SpecConc: two execution contexts.  A step is one atomic operation       *)
(* (atomic_inc, atomic_dec, the use count) or one fslist_lock section;     *)
(* what a call does outside the lock can interleave with the other         *)
(* context's steps.                                                        *)
(***************************************************************************)
ConcNames == {"a"}

Idle(t) == pc[t] = "idle"

\* try_module_get, before the lock is taken
CRegisterGet(t) ==
    /\ loaded /\ Idle(t)
    /\ modcount < MaxMod
    /\ Install(module_get(World))
    /\ pc' = [pc EXCEPT ![t] = "register"]
    /\ UNCHANGED <<poll, kver, loaded, handle, dstate, arg, last>>

CRegisterLocked(t, n, fl, c, oom) ==
    /\ pc[t] = "register"
    /\ oom => register_allocates(World, n)
    /\ register_allocates(World, n) => oom \/ HasFreshPfs(World)
    /\ LET r == register_locked(World, n, fl, c, oom)
       IN /\ Install(r.w)
          /\ DriverAfterRegister(n, r.ret)
    /\ pc' = [pc EXCEPT ![t] = "idle"]
    /\ UNCHANGED <<poll, kver, loaded, arg, last>>

\* The whole function runs under fslist_lock.
CUnregister(t, n) ==
    /\ loaded /\ Idle(t)
    /\ HasHandle(n)
    /\ dstate[n] = "registered" \/ modcount > -MaxDebt
    /\ Install(unregister_filesystem(World, handle[n], kver))
    /\ dstate' = [dstate EXCEPT ![n] = "unregistered"]
    /\ UNCHANGED <<poll, kver, loaded, handle, pc, arg, last>>

\* kmalloc and the locked prepend; the memset is still to come.
CNewOperationsLink(t, n, kind) ==
    /\ loaded /\ Idle(t)
    /\ HasHandle(n)
    /\ HasFreshTab(World)
    /\ Install(ops_link(World, handle[n], kind))
    /\ pc' = [pc EXCEPT ![t] = "memset"]
    /\ arg' = [arg EXCEPT ![t] = FreshTab(World)]
    /\ UNCHANGED <<poll, kver, loaded, handle, dstate, last>>

CNewOperationsMemset(t) ==
    /\ pc[t] = "memset"
    /\ Install(ops_memset(World, arg[t]))
    /\ pc' = [pc EXCEPT ![t] = "idle"]
    /\ arg' = [arg EXCEPT ![t] = NULL]
    /\ UNCHANGED <<poll, kver, loaded, handle, dstate, last>>

\* The kernel links the new super_block on fs_supers and enters the driver's
\* constructor, which has yet to call proclikefs_read_super.
CMountBegin(t, p) ==
    /\ loaded /\ Idle(t)
    /\ \E s \in SbIds : NoSbYet(s)
    /\ pfs[p].st = "alloc" /\ pfs[p].live = 1
    /\ sb' = [sb EXCEPT ![NextSb] = NewSb(p, ShapeOf(NextSb))]
    /\ pc' = [pc EXCEPT ![t] = "read_super"]
    /\ arg' = [arg EXCEPT ![t] = NextSb]
    /\ UNCHANGED <<poll, kver, loaded, fs_list, pfs, tab, modcount, faults, handle, dstate, last>>

CReadSuper(t) ==
    /\ pc[t] = "read_super"
    /\ LET w1 == read_super(World, arg[t])
       IN Install([w1 EXCEPT !.sb[arg[t]].st = "active"])
    /\ pc' = [pc EXCEPT ![t] = "idle"]
    /\ arg' = [arg EXCEPT ![t] = NULL]
    /\ UNCHANGED <<poll, kver, loaded, handle, dstate, last>>

\* atomic_dec, before the lock is taken
CPutSuperDec(t, s) ==
    /\ loaded /\ Idle(t)
    /\ sb[s].st = "active"
    /\ LET w1 == put_super_dec(World, s)
       IN Install([w1 EXCEPT !.sb[s].st = "releasing"])
    /\ pc' = [pc EXCEPT ![t] = "put_super"]
    /\ arg' = [arg EXCEPT ![t] = s]
    /\ UNCHANGED <<poll, kver, loaded, handle, dstate, last>>

CPutSuperLocked(t, taken) ==
    /\ pc[t] = "put_super"
    /\ taken => pfs[sb[arg[t]].s_type].st = "freed"
    /\ LET w1 == put_super_locked(World, arg[t], taken)
       IN Install([w1 EXCEPT !.sb[arg[t]] = GoneSb])
    /\ pc' = [pc EXCEPT ![t] = "idle"]
    /\ arg' = [arg EXCEPT ![t] = NULL]
    /\ UNCHANGED <<poll, kver, loaded, handle, dstate, last>>

NextConc ==
    \/ \E t \in Threads : CRegisterGet(t)
    \/ \E t \in Threads, n \in ConcNames, a \in RegArgs, oom \in BOOLEAN :
           CRegisterLocked(t, n, a.fs_flags, a.get_sb, oom)
    \/ \E t \in Threads, n \in ConcNames : CUnregister(t, n)
    \/ \E t \in Threads, n \in ConcNames, kind \in {"file", "inode"} : CNewOperationsLink(t, n, kind)
    \/ \E t \in Threads : CNewOperationsMemset(t)
    \/ \E t \in Threads, p \in PfsIds : CMountBegin(t, p)
    \/ \E t \in Threads : CReadSuper(t)
    \/ \E t \in Threads, s \in SbIds : CPutSuperDec(t, s)
    \/ \E t \in Threads, taken \in BOOLEAN : CPutSuperLocked(t, taken)

SpecConc == Init /\ [][NextConc]_vars

(***************************************************************************)
(* SpecLock: two execution contexts, and a step ends at every spin_lock,   *)
(* spin_unlock and atomic operation.  A context's position says which      *)
(* locks it holds: spin_lock is taken only when no other context is at a   *)
(* position inside the lock.                                               *)
(***************************************************************************)

\* Positions between spin_lock(&fslist_lock) and spin_unlock(&fslist_lock).
InFslistLock ==
    {"reg_cs", "unreg_cs", "unreg_pfs_cs", "ops_cs_file", "ops_cs_inode", "put_cs",
     "u_cs", "u_pfs", "u_sb", "u_super", "r_cs", "r_sb", "k_put_cs"}

holds_fslist_lock(t) == pc[t] \in InFslistLock

\* Between spin_lock(&pfs->lock) and spin_unlock(&pfs->lock) of Registration p.
holds_pfs_lock(t, p) == pc[t] = "unreg_pfs_cs" /\ arg[t] = p

fslist_lock_free == \A t \in Threads : ~holds_fslist_lock(t)

\* try_module_get and spin_lock(&fslist_lock)
LRegisterLock(t) ==
    /\ pc[t] = "register"
    /\ fslist_lock_free
    /\ pc' = [pc EXCEPT ![t] = "reg_cs"]
    /\ UNCHANGED <<poll, kver, loaded, fs_list, pfs, tab, sb, modcount, faults, handle, dstate, arg, last>>

\* the lookup, the allocation or revival, and spin_unlock
LRegisterBody(t, n, fl, c) ==
    /\ pc[t] = "reg_cs"
    /\ register_allocates(World, n) => HasFreshPfs(World)
    /\ LET r == register_locked(World, n, fl, c, FALSE)
       IN /\ Install(r.w)
          /\ DriverAfterRegister(n, r.ret)
    /\ pc' = [pc EXCEPT ![t] = "idle"]
    /\ UNCHANGED <<poll, kver, loaded, arg, last>>

\* spin_lock(&fslist_lock) at the head of unregister
LUnregisterLock(t, n) ==
    /\ loaded /\ Idle(t)
    /\ HasHandle(n)
    /\ dstate[n] = "registered" \/ modcount > -MaxDebt
    /\ fslist_lock_free
    /\ pc' = [pc EXCEPT ![t] = "unreg_cs"]
    /\ arg' = [arg EXCEPT ![t] = handle[n]]
    /\ dstate' = [dstate EXCEPT ![n] = "unregistered"]
    /\ UNCHANGED <<poll, kver, loaded, fs_list, pfs, tab, sb, modcount, faults, handle, last>>

\* the two poisoning loops, then spin_lock(&pfs->lock)
LUnregisterPoison(t) ==
    /\ pc[t] = "unreg_cs"
    /\ Install(poison_tables(World, arg[t], kver))
    /\ pc' = [pc EXCEPT ![t] = "unreg_pfs_cs"]
    /\ UNCHANGED <<poll, kver, loaded, handle, dstate, arg, last>>

\* the super_block loop, live = 0, the use count, and both unlocks
LUnregisterKill(t) ==
    /\ pc[t] = "unreg_pfs_cs"
    /\ Install(module_put(unregister_retire(kill_supers(World, arg[t]), arg[t], kver)))
    /\ pc' = [pc EXCEPT ![t] = "idle"]
    /\ arg' = [arg EXCEPT ![t] = NULL]
    /\ UNCHANGED <<poll, kver, loaded, handle, dstate, last>>

\* kmalloc and spin_lock(&fslist_lock)
LNewOperationsLock(t, n, kind) ==
    /\ loaded /\ Idle(t)
    /\ HasHandle(n)
    /\ HasFreshTab(World)
    /\ fslist_lock_free
    /\ pc' = [pc EXCEPT ![t] = IF kind = "file" THEN "ops_cs_file" ELSE "ops_cs_inode"]
    /\ arg' = [arg EXCEPT ![t] = handle[n]]
    /\ UNCHANGED <<poll, kver, loaded, fs_list, pfs, tab, sb, modcount, faults, handle, dstate, last>>

\* the prepend and spin_unlock; the memset is still to come
LNewOperationsLink(t) ==
    /\ pc[t] \in {"ops_cs_file", "ops_cs_inode"}
    /\ Install(ops_link(World, arg[t], IF pc[t] = "ops_cs_file" THEN "file" ELSE "inode"))
    /\ pc' = [pc EXCEPT ![t] = "memset"]
    /\ arg' = [arg EXCEPT ![t] = FreshTab(World)]
    /\ UNCHANGED <<poll, kver, loaded, handle, dstate, last>>

\* spin_lock(&fslist_lock) in put_super, after the atomic_dec
LPutSuperLock(t) ==
    /\ pc[t] = "put_super"
    /\ fslist_lock_free
    /\ pc' = [pc EXCEPT ![t] = "put_cs"]
    /\ UNCHANGED <<poll, kver, loaded, fs_list, pfs, tab, sb, modcount, faults, handle, dstate, arg, last>>

\* the test of live and nsuper, the reclaim, and spin_unlock
LPutSuperBody(t, taken) ==
    /\ pc[t] = "put_cs"
    /\ taken => pfs[sb[arg[t]].s_type].st = "freed"
    /\ LET w1 == put_super_locked(World, arg[t], taken)
       IN Install([w1 EXCEPT !.sb[arg[t]] = GoneSb])
    /\ pc' = [pc EXCEPT ![t] = "idle"]
    /\ arg' = [arg EXCEPT ![t] = NULL]
    /\ UNCHANGED <<poll, kver, loaded, handle, dstate, last>>

NextLock ==
    \/ \E t \in Threads : CRegisterGet(t)
    \/ \E t \in Threads : LRegisterLock(t)
    \/ \E t \in Threads, n \in ConcNames, a \in RegArgs : LRegisterBody(t, n, a.fs_flags, a.get_sb)
    \/ \E t \in Threads, n \in ConcNames : LUnregisterLock(t, n)
    \/ \E t \in Threads : LUnregisterPoison(t)
    \/ \E t \in Threads : LUnregisterKill(t)
    \/ \E t \in Threads, n \in ConcNames, kind \in {"file", "inode"} : LNewOperationsLock(t, n, kind)
    \/ \E t \in Threads : LNewOperationsLink(t)
    \/ \E t \in Threads : CNewOperationsMemset(t)
    \/ \E t \in Threads, p \in PfsIds : CMountBegin(t, p)
    \/ \E t \in Threads : CReadSuper(t)
    \/ \E t \in Threads, s \in SbIds : CPutSuperDec(t, s)
    \/ \E t \in Threads : LPutSuperLock(t)
    \/ \E t \in Threads, taken \in BOOLEAN : LPutSuperBody(t, taken)

SpecLock == Init /\ [][NextLock]_vars

(***************************************************************************)
(* SpecExt: one driver, every call run to completion, and an environment   *)
(* that also makes the calls the module does not rule out: a put_super on  *)
(* a super_block that never went through proclikefs_read_super.            *)
(***************************************************************************)

\* The kernel sets a super_block of Registration p up and shuts it down
\* again, and the driver calls proclikefs_put_super for it without having
\* called proclikefs_read_super.
PutSuperUncounted(p) ==
    /\ loaded
    /\ \E s \in SbIds : NoSbYet(s)
    /\ pfs[p].st = "alloc"
    /\ pfs[p].nsuper > -MaxDebt /\ modcount > -MaxDebt
    /\ LET s == NextSb
           w0 == [World EXCEPT !.sb[s] = NewSb(p, ShapeOf(s))]
           w1 == put_super(w0, s, FALSE)
       IN Install([w1 EXCEPT !.sb[s] = GoneSb])
    /\ last' = [NoCall EXCEPT !.op = "put_super_uncounted", !.ptr = p]
    /\ UNCHANGED <<poll, kver, loaded, handle, dstate, pc, arg>>

NextExt ==
    \/ \E n \in ConcNames, a \in RegArgs, oom \in BOOLEAN : Register(n, a.fs_flags, a.get_sb, oom)
    \/ \E n \in ConcNames : Unregister(n)
    \/ \E n \in ConcNames, kind \in {"file", "inode"}, oom \in BOOLEAN : NewOperations(n, kind, oom)
    \/ \E p \in PfsIds : Mount(p)
    \/ \E s \in SbIds, taken \in BOOLEAN : Umount(s, taken)
    \/ \E p \in PfsIds : PutSuperUncounted(p)

SpecExt == Init /\ [][NextExt]_vars

(***************************************************************************)
(* SpecReread: one driver, every call run to completion, the driver also   *)
(* calls proclikefs_reinitialize_supers, and the kernel also mounts file   *)
(* systems that are not proclikefs Registrations.  The callback is the      *)
(* driver's code; it is recorded in last.calls and taken to leave the      *)
(* module's structures alone.                                              *)
(***************************************************************************)

\* A super_block of another file_system_type: it is on super_blocks, on no
\* Registration's fs_supers, and its s_type is no Registration.
ForeignSb == [NoSb EXCEPT !.st = "foreign"]

MountForeign ==
    /\ loaded
    /\ \E s \in SbIds : NoSbYet(s)
    /\ sb' = [sb EXCEPT ![NextSb] = ForeignSb]
    /\ last' = [NoCall EXCEPT !.op = "mount_foreign"]
    /\ UNCHANGED <<poll, kver, loaded, fs_list, pfs, tab, modcount, faults, handle, dstate, pc, arg>>

UmountForeign(s) ==
    /\ sb[s].st = "foreign"
    /\ sb' = [sb EXCEPT ![s] = GoneSb]
    /\ last' = [NoCall EXCEPT !.op = "umount_foreign"]
    /\ UNCHANGED <<poll, kver, loaded, fs_list, pfs, tab, modcount, faults, handle, dstate, pc, arg>>

ReinitializeSupers(n) ==
    /\ loaded
    /\ HasHandle(n)
    /\ last' = [NoCall EXCEPT !.op = "reinitialize_supers", !.name = n,
                              !.calls = reinitialize_supers(World, handle[n], kver)]
    /\ UNCHANGED <<poll, kver, loaded, fs_list, pfs, tab, sb, modcount, faults, handle, dstate, pc, arg>>

NextReread ==
    \/ \E n \in ConcNames, a \in RegArgs : Register(n, a.fs_flags, a.get_sb, FALSE)
    \/ \E n \in ConcNames : Unregister(n)
    \/ \E n \in ConcNames, kind \in {"file", "inode"} : NewOperations(n, kind, FALSE)
    \/ \E p \in PfsIds : Mount(p)
    \/ \E s \in SbIds, taken \in BOOLEAN : Umount(s, taken)
    \/ \E n \in ConcNames : ReinitializeSupers(n)
    \/ MountForeign
    \/ \E s \in SbIds : UmountForeign(s)

SpecReread == Init /\ [][NextReread]_vars

(***************************************************************************)
(* SpecFiles: one driver, every call run to completion, and processes that *)
(* open and close files on the mounted super_blocks.  A super_block's      *)
(* s_files list holds at most one file; its f_op is the file_operations    *)
(* the driver put in the inode: a table it obtained from                   *)
(* proclikefs_new_file_operations, or one of its own.                      *)
(***************************************************************************)

\* The file_operations a driver of Registration p can give a file.
DriverFops(p) == SeqSet(pfs[p].pfs_pfo) \cup {StaticFop}

\* open(2) of a file on super_block s: the file goes on sb->s_files.
OpenFile(s, f) ==
    /\ loaded
    /\ sb[s].st = "active" /\ sb[s].f_op = NoFile
    /\ pfs[sb[s].s_type].st = "alloc" /\ pfs[sb[s].s_type].live = 1
    /\ f \in DriverFops(sb[s].s_type)
    /\ sb' = [sb EXCEPT ![s].f_op = f]
    /\ last' = [NoCall EXCEPT !.op = "open", !.ptr = sb[s].s_type]
    /\ UNCHANGED <<poll, kver, loaded, fs_list, pfs, tab, modcount, faults, handle, dstate, pc, arg>>

\* close(2) of the last reference: the file leaves sb->s_files.
CloseFile(s) ==
    /\ sb[s].st = "active" /\ sb[s].f_op # NoFile
    /\ sb' = [sb EXCEPT ![s].f_op = NoFile]
    /\ last' = [NoCall EXCEPT !.op = "close", !.ptr = sb[s].s_type]
    /\ UNCHANGED <<poll, kver, loaded, fs_list, pfs, tab, modcount, faults, handle, dstate, pc, arg>>

\* The kernel unmounts a super_block only when no file is open on it.
UmountClosed(s) == sb[s].f_op = NoFile /\ Umount(s, FALSE)

NextFiles ==
    \/ \E n \in ConcNames, a \in RegArgs : Register(n, a.fs_flags, a.get_sb, FALSE)
    \/ \E n \in ConcNames : Unregister(n)
    \/ \E n \in ConcNames, kind \in {"file", "inode"} : NewOperations(n, kind, FALSE)
    \/ \E p \in PfsIds : Mount(p)
    \/ \E s \in SbIds : UmountClosed(s)
    \/ \E s \in SbIds, f \in TabIds \cup {StaticFop} : OpenFile(s, f)
    \/ \E s \in SbIds : CloseFile(s)

SpecFiles == Init /\ [][NextFiles]_vars

(***************************************************************************)
(* SpecPoll: PollDevice objects are constructed and destroyed, one call at *)
(* a time (elements are created and deleted by the thread that installs a  *)
(* configuration).                                                         *)
(***************************************************************************)

\* PollDevice::PollDevice()
Construct(o) ==
    /\ o \notin poll.objects
    /\ poll.objects = {} => poll.nreg < MaxCycles
    /\ poll' = [polldev_static_initialize(poll) EXCEPT !.objects = @ \cup {o}]
    /\ UNCHANGED <<kver, loaded, fs_list, pfs, tab, sb, modcount, faults, handle, dstate, pc, arg, last>>

\* PollDevice::~PollDevice()
Destruct(o) ==
    /\ o \in poll.objects
    /\ poll' = [polldev_static_cleanup(poll) EXCEPT !.objects = @ \ {o}]
    /\ UNCHANGED <<kver, loaded, fs_list, pfs, tab, sb, modcount, faults, handle, dstate, pc, arg, last>>

NextPoll ==
    \/ \E o \in ObjIds : Construct(o)
    \/ \E o \in ObjIds : Destruct(o)

SpecPoll == Init /\ [][NextPoll]_vars

(***************************************************************************)
(* SpecOrder: two execution contexts, one driver, and a step for every     *)
(* lock the functions take: fslist_lock, pfs->lock, sb_lock and, inside    *)
(* proclikefs_kill_super, lock_super(sb).  proclikefs_put_super is the     *)
(* put_super member of a super_operations (init_module stores it in        *)
(* proclikefs_null_super_operations); the kernel calls that member, when   *)
(* it shuts a super_block down, between lock_super(sb) and                 *)
(* unlock_super(sb).                                                       *)
(***************************************************************************)

\* Between lock_super(s) and unlock_super(s).
holds_s_lock(t, s) == pc[t] \in {"k_super", "k_put", "k_put_cs", "u_super"} /\ arg[t] = s

\* Between spin_lock(&sb_lock) and spin_unlock(&sb_lock).
holds_sb_lock(t) == pc[t] \in {"u_sb", "u_super", "r_sb"}

s_lock_free(s) == \A t \in Threads : ~holds_s_lock(t, s)

\* The first super_block of Registration p at or after position i of the
\* walk, or NULL when the walk is over.
next_super(p, i) ==
    IF \E s \in fs_supers(World, p) : s >= i
    THEN CHOOSE s \in fs_supers(World, p) : s >= i /\ \A q \in fs_supers(World, p) : q >= i => s <= q
    ELSE NULL

\* The kernel links a new super_block under sb_lock.
OMountBegin(t, p) == (\A u \in Threads : ~holds_sb_lock(u)) /\ CMountBegin(t, p)

\* spin_lock(&fslist_lock) at the head of unregister
OUnregisterLock(t, n) ==
    /\ loaded /\ Idle(t)
    /\ HasHandle(n)
    /\ dstate[n] = "registered" \/ modcount > -MaxDebt
    /\ fslist_lock_free
    /\ pc' = [pc EXCEPT ![t] = "u_cs"]
    /\ dstate' = [dstate EXCEPT ![n] = "unregistered"]
    /\ UNCHANGED <<poll, kver, loaded, fs_list, pfs, tab, sb, modcount, faults, handle, arg, last>>

\* the two poisoning loops, then spin_lock(&pfs->lock)
OUnregisterPoison(t, n) ==
    /\ pc[t] = "u_cs"
    /\ Install(poison_tables(World, handle[n], kver))
    /\ pc' = [pc EXCEPT ![t] = "u_pfs"]
    /\ UNCHANGED <<poll, kver, loaded, handle, dstate, arg, last>>

\* spin_lock(&sb_lock): the walk over fs_supers starts
OUnregisterSbLock(t) ==
    /\ pc[t] = "u_pfs"
    /\ \A u \in Threads : ~holds_sb_lock(u)
    /\ pc' = [pc EXCEPT ![t] = "u_sb"]
    /\ arg' = [arg EXCEPT ![t] = 1]
    /\ UNCHANGED <<poll, kver, loaded, fs_list, pfs, tab, sb, modcount, faults, handle, dstate, last>>

\* proclikefs_kill_super up to lock_super(sb)
OKillSuperLock(t, n) ==
    /\ pc[t] = "u_sb"
    /\ next_super(handle[n], arg[t]) # NULL
    /\ s_lock_free(next_super(handle[n], arg[t]))
    /\ pc' = [pc EXCEPT ![t] = "u_super"]
    /\ arg' = [arg EXCEPT ![t] = next_super(handle[n], arg[t])]
    /\ UNCHANGED <<poll, kver, loaded, fs_list, pfs, tab, sb, modcount, faults, handle, dstate, last>>

\* the rest of proclikefs_kill_super, ending with unlock_super(sb)
OKillSuperBody(t, n) ==
    /\ pc[t] = "u_super"
    /\ sb' = [sb EXCEPT ![arg[t]] = kill_super(@, dummy_fop(World, handle[n]))]
    /\ pc' = [pc EXCEPT ![t] = "u_sb"]
    /\ arg' = [arg EXCEPT ![t] = @ + 1]
    /\ UNCHANGED <<poll, kver, loaded, fs_list, pfs, tab, modcount, faults, handle, dstate, last>>

\* the walk is over: live = 0, the use count, and the three unlocks
OUnregisterRetire(t, n) ==
    /\ pc[t] = "u_sb"
    /\ next_super(handle[n], arg[t]) = NULL
    /\ Install(module_put(unregister_retire(World, handle[n], kver)))
    /\ pc' = [pc EXCEPT ![t] = "idle"]
    /\ arg' = [arg EXCEPT ![t] = NULL]
    /\ UNCHANGED <<poll, kver, loaded, handle, dstate, last>>

\* spin_lock(&fslist_lock) in reinitialize_supers
OReinitLock(t, n) ==
    /\ loaded /\ Idle(t)
    /\ HasHandle(n)
    /\ fslist_lock_free
    /\ pc' = [pc EXCEPT ![t] = "r_cs"]
    /\ UNCHANGED <<poll, kver, loaded, fs_list, pfs, tab, sb, modcount, faults, handle, dstate, arg, last>>

\* spin_lock(&sb_lock)
OReinitSbLock(t) ==
    /\ pc[t] = "r_cs"
    /\ \A u \in Threads : ~holds_sb_lock(u)
    /\ pc' = [pc EXCEPT ![t] = "r_sb"]
    /\ UNCHANGED <<poll, kver, loaded, fs_list, pfs, tab, sb, modcount, faults, handle, dstate, arg, last>>

\* the walk with its reread_super calls, and the two unlocks
OReinitBody(t, n) ==
    /\ pc[t] = "r_sb"
    /\ last' = [NoCall EXCEPT !.op = "reinitialize_supers", !.name = n,
                              !.calls = reinitialize_supers(World, handle[n], kver)]
    /\ pc' = [pc EXCEPT ![t] = "idle"]
    /\ UNCHANGED <<poll, kver, loaded, fs_list, pfs, tab, sb, modcount, faults, handle, dstate, arg>>

\* The kernel shuts super_block s down: lock_super(s), then the put_super
\* member of s->s_op.
OShutdownLock(t, s) ==
    /\ loaded /\ Idle(t)
    /\ sb[s].st = "active"
    /\ s_lock_free(s)
    /\ pc' = [pc EXCEPT ![t] = "k_super"]
    /\ arg' = [arg EXCEPT ![t] = s]
    /\ UNCHANGED <<poll, kver, loaded, fs_list, pfs, tab, sb, modcount, faults, handle, dstate, last>>

\* atomic_dec in put_super, before fslist_lock is taken
OPutSuperDec(t) ==
    /\ pc[t] = "k_super"
    /\ LET w1 == put_super_dec(World, arg[t])
       IN Install([w1 EXCEPT !.sb[arg[t]].st = "releasing"])
    /\ pc' = [pc EXCEPT ![t] = "k_put"]
    /\ UNCHANGED <<poll, kver, loaded, handle, dstate, arg, last>>

\* spin_lock(&fslist_lock) in put_super
OPutSuperLock(t) ==
    /\ pc[t] = "k_put"
    /\ fslist_lock_free
    /\ pc' = [pc EXCEPT ![t] = "k_put_cs"]
    /\ UNCHANGED <<poll, kver, loaded, fs_list, pfs, tab, sb, modcount, faults, handle, dstate, arg, last>>

\* the locked part of put_super; back in the kernel, unlock_super(s)
OPutSuperBody(t, taken) ==
    /\ pc[t] = "k_put_cs"
    /\ taken => pfs[sb[arg[t]].s_type].st = "freed"
    /\ LET w1 == put_super_locked(World, arg[t], taken)
       IN Install([w1 EXCEPT !.sb[arg[t]] = GoneSb])
    /\ pc' = [pc EXCEPT ![t] = "idle"]
    /\ arg' = [arg EXCEPT ![t] = NULL]
    /\ UNCHANGED <<poll, kver, loaded, handle, dstate, last>>

NextOrder ==
    \/ \E t \in Threads : CRegisterGet(t)
    \/ \E t \in Threads : LRegisterLock(t)
    \/ \E t \in Threads, n \in ConcNames : LRegisterBody(t, n, 0, "get_sb1")
    \/ \E t \in Threads, n \in ConcNames : OUnregisterLock(t, n)
    \/ \E t \in Threads, n \in ConcNames : OUnregisterPoison(t, n)
    \/ \E t \in Threads : OUnregisterSbLock(t)
    \/ \E t \in Threads, n \in ConcNames : OKillSuperLock(t, n)
    \/ \E t \in Threads, n \in ConcNames : OKillSuperBody(t, n)
    \/ \E t \in Threads, n \in ConcNames : OUnregisterRetire(t, n)
    \/ \E t \in Threads, n \in ConcNames : OReinitLock(t, n)
    \/ \E t \in Threads : OReinitSbLock(t)
    \/ \E t \in Threads, n \in ConcNames : OReinitBody(t, n)
    \/ \E t \in Threads, n \in ConcNames, kind \in {"file", "inode"} : LNewOperationsLock(t, n, kind)
    \/ \E t \in Threads : LNewOperationsLink(t)
    \/ \E t \in Threads : CNewOperationsMemset(t)
    \/ \E t \in Threads, p \in PfsIds : OMountBegin(t, p)
    \/ \E t \in Threads : CReadSuper(t)
    \/ \E t \in Threads, s \in SbIds : OShutdownLock(t, s)
    \/ \E t \in Threads : OPutSuperDec(t)
    \/ \E t \in Threads : OPutSuperLock(t)
    \/ \E t \in Threads, taken \in BOOLEAN : OPutSuperBody(t, taken)

\* The locks are taken in the same places in every build that has sb_lock;
\* one build is followed.
InitOrder == Init /\ kver = "2.6.16"

SpecOrder == InitOrder /\ [][NextOrder]_vars

(***************************************************************************)
(* SpecWalk: unregister on a mounted super_block whose dentry tree has any *)
(* of the shapes of Tree.  It starts after register("a") and one mount.    *)
(***************************************************************************)
EmptyWorld ==
    [fs_list |-> <<>>, pfs |-> [p \in PfsIds |-> NoPfs], tab |-> [t \in TabIds |-> NoTab],
     sb |-> [s \in SbIds |-> NoSb], modcount |-> 0, faults |-> {}]

\* The memory after register("a", 0, get_sb1) and a mount with that tree.
MountedWorld(shape) ==
    LET r == register_filesystem(EmptyWorld, "a", 0, "get_sb1", FALSE)
        w1 == [r.w EXCEPT !.sb[1] = [NewSb(r.ret, shape) EXCEPT !.st = "active"]]
    IN read_super(w1, 1)

InitWalk ==
    /\ kver \in KVers
    /\ loaded = TRUE
    /\ \E shape \in Shapes :
           LET w == MountedWorld(shape)
           IN /\ fs_list = w.fs_list /\ pfs = w.pfs /\ tab = w.tab /\ sb = w.sb
              /\ modcount = w.modcount /\ faults = w.faults
              /\ handle = [n \in Names |-> IF n = "a" THEN w.fs_list[1] ELSE NULL]
              /\ last = [NoCall EXCEPT !.op = "read_super", !.ptr = w.fs_list[1]]
    /\ dstate = [n \in Names |-> IF n = "a" THEN "registered" ELSE "none"]
    /\ pc = [t \in Threads |-> "idle"]
    /\ arg = [t \in Threads |-> NULL]
    /\ poll = NoPoll

NextWalk ==
    \/ \E n \in ConcNames : Unregister(n)
    \/ \E n \in ConcNames, a \in RegArgs : Register(n, a.fs_flags, a.get_sb, FALSE)
    \/ \E s \in SbIds : Umount(s, FALSE)

SpecWalk == InitWalk /\ [][NextWalk]_vars

(***************************************************************************)
(* Properties.                                                             *)
(***************************************************************************)
InRegistry(p) == p \in SeqSet(fs_list)

OwnedTables(p) == SeqSet(pfs[p].pfs_pfo) \cup SeqSet(pfs[p].pfs_pio)

\* The Instances of p that have been acquired and not released.
Acquired(p) == {s \in SbIds : sb[s].s_type = p /\ sb[s].st = "active"}

\* The values a poisoned slot can hold that make a dispatch fail.
FailingStubs == {"return_EIO", "bad_follow_link"}

\* new_operations has returned table t to the driver.
Obtained(t) == tab[t].st = "alloc" /\ \A th \in Threads : ~(pc[th] = "memset" /\ arg[th] = t)

\* unregister has returned for Registration p and no register has revived it.
Retired(p) == pfs[p].st = "alloc" /\ pfs[p].live = 0

\* C1: once unregister(h) has returned, every slot of every table obtained
\* through new_operations(h) holds a failing stub.
C1_PoisonedAfterUnregister ==
    \A t \in TabIds :
        Obtained(t) /\ Retired(tab[t].owner) =>
            \A sl \in DOMAIN tab[t].slots : tab[t].slots[sl] \in FailingStubs

\* C2: put_super frees the Registration, all its tables and its Registry
\* entry exactly when the Registration is not live and the released Instance
\* was the last one acquired (nsuper is 0 after the decrement); otherwise it
\* frees nothing and the Registration stays in the Registry.
C2_ReclaimExactlyAtLastRelease ==
    [][\A s \in SbIds : (last'.op = "put_super" /\ Umount(s, FALSE)) =>
          LET p == sb[s].s_type
          IN /\ pfs[p].nsuper = Cardinality(Acquired(p))
             /\ IF pfs[p].live = 0 /\ Acquired(p) = {s}
                THEN /\ pfs'[p].st = "freed"
                     /\ \A t \in OwnedTables(p) : tab'[t].st = "freed"
                     /\ p \notin SeqSet(fs_list')
                ELSE /\ pfs'[p].st = "alloc"
                     /\ p \in SeqSet(fs_list')
                     /\ \A t \in TabIds : tab'[t].st = tab[t].st
                     /\ \A q \in PfsIds : pfs'[q].st = pfs[q].st]_vars

\* Two Instances were acquired, the Registration was unregistered, and the
\* second release has just reclaimed it together with a table.
C2_Witness ==
    /\ last.op = "put_super"
    /\ pfs[last.ptr].st = "freed"
    /\ \A s \in SbIds : sb[s].st = "gone"
    /\ \E t \in TabIds : tab[t].st = "freed"

\* C3: no Registration is freed while an Instance of it is acquired and not
\* yet released.
C3_NoFreeWhileAcquired ==
    \A p \in PfsIds : pfs[p].st = "freed" =>
        \A s \in SbIds : ~(sb[s].s_type = p /\ sb[s].st \in {"active", "releasing"})

\* C4: reclamation runs at most once: nothing is freed twice and put_super
\* never reads live or nsuper of a Registration that has been freed.
C4_ReclaimOnce == "double_free" \notin faults /\ "read_of_freed" \notin faults

\* C5: when every registered driver has been unregistered and every acquired
\* Instance released, no table is left allocated and none was freed twice.
C5_NoTableLeak ==
    (/\ \A n \in Names : dstate[n] # "registered"
     /\ \A s \in SbIds : sb[s].st # "active")
    => /\ \A t \in TabIds : tab[t].st # "alloc"
       /\ "double_free" \notin faults

\* C6: register fails when a live Registration of that name exists, and a
\* failed register (name in use, or out of memory) changes nothing.
C6_FailedRegisterChangesNothing ==
    [][\A n \in Names, a \in RegArgs, oom \in BOOLEAN :
          (/\ last'.op = "register" /\ last'.name = n
           /\ Register(n, a.fs_flags, a.get_sb, oom)) =>
              /\ (\E p \in SeqSet(fs_list) : pfs[p].name = n /\ pfs[p].live = 1)
                     => last'.ptr = NULL
              /\ oom => last'.ptr = NULL
              /\ last'.ptr = NULL =>
                     UNCHANGED <<fs_list, pfs, tab, sb, modcount, handle, dstate>>]_vars

\* register has just failed on a name that is live, with an Instance mounted.
C6_Witness ==
    /\ last.op = "register" /\ last.ptr = NULL
    /\ \E p \in SeqSet(fs_list) : pfs[p].name = last.name /\ pfs[p].live = 1 /\ pfs[p].nsuper > 0

\* C7: the Registry holds at most one live Registration per name.
C7_OneLivePerName ==
    \A n \in Names :
        Cardinality({p \in SeqSet(fs_list) : pfs[p].name = n /\ pfs[p].live = 1}) <= 1

\* A second Registration of a name is live after the first was reclaimed.
C7_Witness ==
    \E p, q \in PfsIds :
        /\ pfs[p].st = "freed"
        /\ InRegistry(q) /\ pfs[q].live = 1 /\ pfs[q].name = "a"

\* C8: register(name) with no Registration of that name in the Registry and
\* no allocation failure returns a new, live Registration named name that is
\* in the Registry.
C8_RegisterAllocates ==
    [][\A n \in Names, a \in RegArgs :
          (/\ last'.op = "register" /\ last'.name = n
           /\ \A p \in SeqSet(fs_list) : pfs[p].name # n
           /\ Register(n, a.fs_flags, a.get_sb, FALSE))
          => /\ last'.ptr # NULL
             /\ pfs[last'.ptr].st = "unalloc"
             /\ last'.ptr \in SeqSet(fs_list')
             /\ pfs'[last'.ptr].live = 1
             /\ pfs'[last'.ptr].name = n]_vars

\* C9: register(name) with a retired, unreclaimed Registration of that name
\* returns that Registration, live again and with the new flags and
\* constructor; nsuper, the table lists and everything else are unchanged.
C9_RegisterRevives ==
    [][\A n \in Names, a \in RegArgs, oom \in BOOLEAN, p \in PfsIds :
          (/\ last'.op = "register" /\ last'.name = n
           /\ InRegistry(p) /\ pfs[p].name = n /\ pfs[p].live = 0
           /\ Register(n, a.fs_flags, a.get_sb, oom))
          => /\ last'.ptr = p
             /\ fs_list' = fs_list
             /\ pfs' = [pfs EXCEPT ![p].live = 1, ![p].fs_flags = a.fs_flags,
                                   ![p].mount = a.get_sb]
             /\ tab' = tab /\ sb' = sb]_vars

\* A Registration was revived while an Instance acquired before its
\* retirement is still counted and one of its tables is still owned.
C9_Witness ==
    /\ last.op = "register" /\ last.ptr # NULL
    /\ pfs[last.ptr].name = last.name /\ pfs[last.ptr].live = 1
    /\ pfs[last.ptr].nsuper > 0 /\ OwnedTables(last.ptr) # {}
    /\ \E s \in Acquired(last.ptr) : sb[s].s_op = "proclikefs_null_super_operations"

\* C10: a driver that registered name, unregistered it and has no acquired
\* Instance left registers name again with success.
C10_RegisterAgain ==
    [][\A n \in Names, a \in RegArgs :
          (/\ last'.op = "register" /\ last'.name = n
           /\ dstate[n] = "unregistered"
           /\ Acquired(handle[n]) = {}
           /\ Register(n, a.fs_flags, a.get_sb, FALSE))
          => /\ last'.ptr # NULL
             /\ last'.ptr \in SeqSet(fs_list')
             /\ pfs'[last'.ptr].live = 1
             /\ pfs'[last'.ptr].name = n]_vars

\* C11: a put_super that exceeds the read_super calls made for the
\* Registration (nsuper is already 0) changes neither nsuper, live, the
\* tables nor the module use count, and frees nothing.
C11_ExcessReleaseIsNoOp ==
    [][\A p \in PfsIds :
          (/\ last'.op = "put_super_uncounted"
           /\ pfs[p].nsuper <= 0
           /\ PutSuperUncounted(p))
          => /\ pfs' = pfs /\ tab' = tab /\ fs_list' = fs_list
             /\ modcount' = modcount
             /\ \A q \in PfsIds : pfs'[q].nsuper >= 0]_vars

\* C12: for every tree shape the walk of kill_super terminates, makes every
\* node of the tree its active dentry exactly once, and leaves the root
\* undropped and the super_block in place.
C12_WalkVisitsEveryNodeOnce ==
    [][\A n \in ConcNames :
          (last'.op = "unregister" /\ Unregister(n)) =>
              \A s \in fs_supers(World, handle[n]) :
                  /\ \A nd \in Nodes(sb[s].shape) : sb'[s].visits[nd] = 1
                  /\ DOMAIN sb'[s].visits = Nodes(sb[s].shape)
                  /\ 1 \notin sb'[s].dropped
                  /\ sb'[s].st = sb[s].st]_vars

\* unregister has walked a mounted balanced tree of seven nodes.
C12_Witness ==
    /\ last.op = "unregister"
    /\ \E s \in SbIds :
           /\ sb[s].st = "active" /\ sb[s].shape = "balanced"
           /\ \A nd \in Nodes("balanced") : sb[s].visits[nd] = 1

\* C13: after the walk every non-root dentry has been dropped and has no
\* d_op, the root has not been dropped, the root inode has the null root
\* inode operations (lookup fails) and the super_block the null super
\* operations, whose put_super is proclikefs_put_super.
C13_TreeNeutralised ==
    [][\A n \in ConcNames :
          (last'.op = "unregister" /\ Unregister(n)) =>
              \A s \in fs_supers(World, handle[n]) :
                  /\ sb'[s].dropped = Nodes(sb[s].shape) \ {1}
                  /\ \A nd \in Nodes(sb[s].shape) \ {1} : sb'[s].d_op[nd] = "null"
                  /\ sb'[s].i_op = "proclikefs_null_root_inode_operations"
                  /\ init_module[sb'[s].i_op].lookup = "proclikefs_null_root_lookup"
                  /\ sb'[s].s_op = "proclikefs_null_super_operations"
                  /\ init_module[sb'[s].s_op].put_super = "proclikefs_put_super"]_vars

\* unregister has neutralised a mounted wide tree: six children dropped.
C13_Witness ==
    /\ last.op = "unregister"
    /\ \E s \in SbIds :
           /\ sb[s].st = "active" /\ sb[s].shape = "wide"
           /\ sb[s].dropped = 2..7
           /\ sb[s].s_op = "proclikefs_null_super_operations"

\* C14: a slot that holds a failing stub keeps it in every later state in
\* which its table is still allocated.
C14_PoisonedStaysPoisoned ==
    [][\A t \in TabIds : \A sl \in DOMAIN tab[t].slots :
          (tab[t].slots[sl] \in FailingStubs /\ tab'[t].st = "alloc")
          => tab'[t].slots[sl] = tab[t].slots[sl]]_vars

\* Every slot of table t holds what unregister stores in it.
Poisoned(t) ==
    /\ tab[t].st = "alloc"
    /\ \A sl \in DOMAIN tab[t].slots : tab[t].slots[sl] = poison(tab[t].kind, sl, kver)

\* C15: unregister on a Registration that is already not live changes
\* neither live, nsuper nor the Registry, leaves every super_block (tree,
\* d_op, i_op, s_op) as it is, and leaves every table the earlier
\* unregister poisoned as it is.
C15_UnregisterIdempotent ==
    [][\A n \in Names :
          (/\ last'.op = "unregister" /\ last'.name = n
           /\ HasHandle(n) /\ pfs[handle[n]].live = 0
           /\ Unregister(n))
          => /\ pfs' = pfs /\ sb' = sb /\ fs_list' = fs_list
             /\ \A t \in OwnedTables(handle[n]) : Poisoned(t) => tab'[t] = tab[t]]_vars

\* More unregister calls than register calls have been made (the use count
\* is below the number of mounted super_blocks), the last call was an
\* unregister, and the Registration has a killed super_block and a
\* poisoned table.
C15_Witness ==
    /\ last.op = "unregister"
    /\ LET p == handle[last.name]
       IN /\ pfs[p].st = "alloc" /\ pfs[p].live = 0
          /\ modcount < pfs[p].nsuper
          /\ \E s \in Acquired(p) : sb[s].s_op = "proclikefs_null_super_operations"
          /\ \E t \in OwnedTables(p) : Poisoned(t)

\* The number of times x occurs in the sequence q.
Count(q, x) == Cardinality({i \in DOMAIN q : q[i] = x})

\* C16: proclikefs_reinitialize_supers calls reread_super exactly once for
\* every super_block on the Registration's fs_supers and for no other
\* super_block, live or not, and changes no Registration, table,
\* super_block, use count or the Registry.
C16_RereadOncePerSuper ==
    [][\A n \in ConcNames :
          (/\ last'.op = "reinitialize_supers" /\ last'.name = n
           /\ ReinitializeSupers(n))
          => /\ \A s \in SbIds :
                  Count(last'.calls, s) = IF s \in fs_supers(World, handle[n]) THEN 1 ELSE 0
             /\ pfs' = pfs /\ tab' = tab /\ sb' = sb
             /\ fs_list' = fs_list /\ modcount' = modcount]_vars

\* reread_super has been called for the super_block of a Registration that
\* is not live any more while another file system has a super_block too.
C16_Witness ==
    /\ last.op = "reinitialize_supers"
    /\ Len(last.calls) >= 1
    /\ pfs[handle[last.name]].live = 0
    /\ \E s \in SbIds : sb[s].st = "foreign"

\* The shared fields of a Registration: live, the two table lists, nsuper.
SharedFields(r) == <<r.live, r.pfs_pfo, r.pfs_pio, r.nsuper>>

\* C17: whenever a step writes a Registration's live flag, table lists or
\* nsuper, the context that takes the step is inside a critical section
\* that covers the Registration: its own lock or, as the code has it for
\* every function but unregister, fslist_lock.
C17_WritesUnderLock ==
    [][\A p \in PfsIds :
          (/\ pfs[p].st = "alloc" /\ pfs'[p].st = "alloc"
           /\ SharedFields(pfs'[p]) # SharedFields(pfs[p]))
          => \E t \in Threads :
                /\ pc'[t] # pc[t]
                /\ holds_pfs_lock(t, p) \/ holds_fslist_lock(t)]_vars

RECURSIVE SumNsuper(_)
\* The sum of nsuper over the allocated Registrations in P.
SumNsuper(P) ==
    IF P = {} THEN 0
    ELSE LET p == CHOOSE x \in P : TRUE
         IN (IF pfs[p].st = "alloc" THEN pfs[p].nsuper ELSE 0) + SumNsuper(P \ {p})

\* The module use count equals the number of live Registrations plus the
\* mounted super_blocks of all Registrations.
Balanced ==
    modcount = Cardinality({p \in PfsIds : pfs[p].st = "alloc" /\ pfs[p].live = 1})
               + SumNsuper(PfsIds)

\* C18: as long as no driver calls unregister without a successful register
\* of its own before it, every completed call leaves the use count equal to
\* the number of live Registrations plus the sum of nsuper.
C18_UseCountBalanced ==
    [][(/\ Balanced
        /\ ~(last'.op = "unregister" /\ dstate[last'.name] # "registered"))
       => Balanced']_vars

\* C19: when unregister returns, every slot of every table on the
\* Registration's two lists holds a failing stub (return_EIO or
\* bad_follow_link): none is empty and none is the driver's.
C19_EverySlotPoisoned ==
    [][\A n \in Names :
          (/\ last'.op = "unregister" /\ last'.name = n
           /\ HasHandle(n)
           /\ Unregister(n))
          => \A t \in OwnedTables(handle[n]) : \A sl \in DOMAIN tab'[t].slots :
                tab'[t].slots[sl] \in FailingStubs]_vars

\* The list of Registration r that holds the tables of the given kind.
ListOf(r, kind) == IF kind = "file" THEN r.pfs_pfo ELSE r.pfs_pio

\* C20: a new_file_operations / new_inode_operations call whose kmalloc
\* succeeds returns a table that was not allocated before, has every slot
\* zero, and is the head of the Registration's list of its kind with the
\* old list behind it, in order, and nowhere else; a call whose kmalloc
\* fails returns a null pointer and changes no list and no table.
C20_NewTableAtHead ==
    [][\A n \in Names, kind \in {"file", "inode"}, oom \in BOOLEAN :
          (/\ last'.op = "new_operations" /\ last'.name = n
           /\ (last'.ptr = NULL) = oom
           /\ NewOperations(n, kind, oom))
          => LET h == handle[n]
                 t == last'.ptr
             IN IF oom
                THEN pfs' = pfs /\ tab' = tab
                ELSE /\ tab[t].st = "unalloc" /\ tab'[t].st = "alloc"
                     /\ tab'[t].kind = kind
                     /\ \A sl \in SlotsOf(kind) : tab'[t].slots[sl] = "null"
                     /\ ListOf(pfs'[h], kind) = <<t>> \o ListOf(pfs[h], kind)
                     /\ Count(ListOf(pfs'[h], kind), t) = 1
                     /\ \A k \in {"file", "inode"} \ {kind} :
                           /\ ListOf(pfs'[h], k) = ListOf(pfs[h], k)
                           /\ Count(ListOf(pfs'[h], k), t) = 0
                     /\ \A u \in TabIds \ {t} : tab'[u] = tab[u]]_vars

\* A call has just returned a table that is the head of a list holding an
\* older table behind it.
C20_Witness ==
    /\ last.op = "new_operations" /\ last.ptr # NULL
    /\ LET l == ListOf(pfs[handle[last.name]], tab[last.ptr].kind)
       IN Len(l) >= 2 /\ l[1] = last.ptr

\* C21: when unregister returns, every file open on a super_block of the
\* Registration has as f_op the head of the Registration's file-operations
\* list, and every slot of that table holds a failing stub.
C21_OpenFilesPoisoned ==
    [][\A n \in ConcNames :
          (/\ last'.op = "unregister" /\ last'.name = n
           /\ HasHandle(n)
           /\ Unregister(n))
          => \A s \in fs_supers(World, handle[n]) :
                sb[s].f_op # NoFile
                => /\ pfs'[handle[n]].pfs_pfo # <<>>
                   /\ sb'[s].f_op = pfs'[handle[n]].pfs_pfo[1]
                   /\ \A sl \in FileSlots :
                         tab'[sb'[s].f_op].slots[sl] \in FailingStubs]_vars

\* C22: a Registration or a table goes from allocated to freed only in a
\* proclikefs_put_super call; the Registration is then not live, the call
\* brought its nsuper to 0, and every table on its lists is freed in the
\* same call.
C22_OnlyPutSuperFrees ==
    [][/\ \A p \in PfsIds :
            (pfs[p].st = "alloc" /\ pfs'[p].st = "freed")
            => /\ last'.op = "put_super"
               /\ pfs[p].live = 0 /\ pfs[p].nsuper - 1 = 0
               /\ \A t \in OwnedTables(p) : tab'[t].st = "freed"
       /\ \A t \in TabIds :
            (tab[t].st = "alloc" /\ tab'[t].st = "freed")
            => last'.op = "put_super"]_vars

\* C23: a register call, successful or not, leaves every Registration on
\* fs_list whose name is not the name passed as it was (live, fs_flags,
\* get_sb / read_super, nsuper, the table lists) and leaves its tables as
\* they were.
C23_RegisterFrame ==
    [][\A n \in Names, a \in RegArgs, oom \in BOOLEAN :
          (/\ last'.op = "register" /\ last'.name = n
           /\ Register(n, a.fs_flags, a.get_sb, oom))
          => \A p \in SeqSet(fs_list) :
                pfs[p].name # n
                => /\ pfs'[p] = pfs[p]
                   /\ \A t \in OwnedTables(p) : tab'[t] = tab[t]]_vars

\* Context t has started a call and its next step is a lock that another
\* context holds.
Waiting(t) ==
    \/ pc[t] \in {"register", "k_put"} /\ ~fslist_lock_free
    \/ /\ pc[t] = "u_sb"
       /\ \E n \in ConcNames :
             /\ next_super(handle[n], arg[t]) # NULL
             /\ ~s_lock_free(next_super(handle[n], arg[t]))
    \/ pc[t] \in {"u_pfs", "r_cs"} /\ \E u \in Threads : holds_sb_lock(u)

\* C24: no state is reached in which every context is inside a call and
\* waits for a lock held by another context.
C24_NoDeadlock == ~(\A t \in Threads : Waiting(t))

\* C25: after every construction and destruction device_notifier is on the
\* notifier chain exactly once if a PollDevice exists and not at all
\* otherwise, poll_device_count is the number of objects, and the step
\* called register_netdevice_notifier exactly if it created the first
\* object and unregister_netdevice_notifier exactly if it destroyed the
\* last one.
C25_NotifierWhileObjects ==
    [][/\ poll'.chain = (IF poll'.objects = {} THEN 0 ELSE 1)
       /\ poll'.count = Cardinality(poll'.objects)
       /\ poll'.nreg - poll.nreg = (IF poll.objects = {} /\ poll'.objects # {} THEN 1 ELSE 0)
       /\ poll'.nunreg - poll.nunreg = (IF poll.objects # {} /\ poll'.objects = {} THEN 1 ELSE 0)]_vars

\* The notifier is registered for the second time and two objects exist.
C25_Witness ==
    /\ poll.nreg = 2 /\ poll.nunreg = 1
    /\ Cardinality(poll.objects) >= 2
    /\ poll.chain = 1

====
